---- MODULE Spec2Model ----
(***************************************************************************)
(* State-machine model of the RIFT self-healing pipeline:                  *)
(*   backend/orchestrator.py      run_pipeline (the iteration controller)  *)
(*   backend/agents/heal_agent.py HealAgent.run, HealAgent._fix_error      *)
(*   backend/agents/analyze_agent.py AnalyzeAgent.run (defect merging)     *)
(*                                                                         *)
(* A source line is abstracted to a record [body, ws]: body is the text    *)
(* without trailing white space, ws tells whether trailing white space     *)
(* follows it.  A file is a sequence of lines.  py_compile accepts a file  *)
(* iff none of its lines has the body "bad".                               *)
(***************************************************************************)
EXTENDS Integers, Sequences, FiniteSets, TLC

VARIABLES
    pc,               \* position of run_pipeline / HealAgent.run / _fix_error
    max_iterations,   \* config.MAX_ITERATIONS, the round budget of this Run
    i,                \* loop variable of the healing loop
    test_output,      \* the initial test result (discover_agent.run)
    current_output,   \* the most recent test result
    errors,           \* Defect list of the current round (analyze_agent.run)
    iterations,       \* run_pipeline's list of Iterations
    all_fixes,        \* run_pipeline's list of Fixes
    total_commits,    \* run_pipeline's commit counter
    result,           \* the RunResult object
    saved,            \* what results_service.save has persisted
    hidx,             \* HealAgent.run: index of the Defect being handled
    fixes,            \* HealAgent.run: the pass-local Fix list
    commit_count,     \* HealAgent.run: the pass-local commit counter
    fix,              \* the Fix returned by _fix_error, awaiting its commit
    sidx,             \* _fix_error: index of the strategy tried next
    original_content, \* _fix_error: content read when the call began
    disk,             \* the working tree: file name -> sequence of lines
    reparse_ok,       \* per file: its content passed _verify_syntax since last written
    git_log,          \* commits made by git_service.commit_fix, in order
    calls,            \* how often analyze / heal / verify have been invoked
    exc,              \* the exception the except block caught: the step that raised, or ""
    an_in,            \* AnalyzeAgent.run: the findings of its four sources
    an_out,           \* AnalyzeAgent.run: the Defect list it returned
    runs,             \* concurrent Runs: run -> [pc, team, status, edits]
    clone_dir,        \* CLONE_DIR: folder name -> the tree cloned there, or NoTree
    results_file,     \* RESULTS_PATH: the Run whose record it holds, or 0
    report,           \* a location reported by the test output: [pattern, path]
    located,            \* the Defects the output parser made of it
    written,          \* the paths the fix engine has written
    tr_err,           \* the tracer's argument err
    tr_seen,          \* the tracer's argument seen
    tr_target,        \* the module file err resolves to, with its cache file
    tr_results,       \* what the tracer's calls returned, in order
    fn_in,            \* a strategy called on its own: its arguments
    fn_out            \* a strategy called on its own: what it returned

runVars  == <<pc, max_iterations, i, test_output, current_output, errors,
              iterations, all_fixes, total_commits, result, saved, calls, exc>>
healVars == <<hidx, fixes, commit_count, fix, sidx, original_content,
              disk, reparse_ok, git_log>>
anVars   == <<an_in, an_out>>
ccVars   == <<runs, clone_dir, results_file>>
vdVars   == <<report, located, written>>
trVars   == <<tr_err, tr_seen, tr_target, tr_results>>
fnVars   == <<fn_in, fn_out>>
vars     == <<runVars, healVars, anVars, ccVars, vdVars, trVars, fnVars>>

(***************************************************************************)
(* Bounds of the model.                                                    *)
(***************************************************************************)
MaxBudget == 2      \* largest round budget explored
MaxDefects == 2     \* most Defects the analysis passes of one Run report in all
MaxTests == 1       \* most tests a test run reports
MaxFindings == 2    \* most findings one source of an analysis pass reports

(***************************************************************************)
(* Values.                                                                 *)
(***************************************************************************)
BugTypes == {"LINTING", "SYNTAX", "LOGIC", "TYPE_ERROR", "IMPORT", "INDENTATION"}

Files   == {"a.py", "b.py", "c.js"}
PyFiles == {"a.py", "b.py"}

Ln(b, w) == [body |-> b, ws |-> w]
Bodies   == {"ok", "alt", "bad"}

\* str.rstrip() of a line
RStrip(l) == [l EXCEPT !.ws = FALSE]

\* str.rstrip() of a text of one or more lines: only the end is stripped
RStripText(t) == [t EXCEPT ![Len(t)] = RStrip(t[Len(t)])]

\* py_compile.compile(file, doraise=True) succeeds
Parses(content) == \A k \in 1..Len(content) : content[k].body # "bad"

\* original_code of a cross-file Fix: the literal "(cross-file fix)", no line
CrossFileMarker == <<>>

(***************************************************************************)
(* Records.                                                                *)
(***************************************************************************)
ExitCodes   == {0, 1}
\* discover_agent._parse_test_counts (pytest, mocha and the fallback set
\* total = passed + failed) and the test command's exit code
TestOutputs ==
    { o \in [passed : 0..MaxTests, failed : 0..MaxTests, total : 0..MaxTests,
             exit_code : ExitCodes] : o.passed + o.failed = o.total }

NoOutput == [passed |-> 0, failed |-> 0, total |-> 0, exit_code |-> -1]

\* docker_service.py lines 98-104 and 163-176: the test command timed out.
\* The exit code is -1 and the output holds no summary line, so that
\* _parse_test_counts leaves its three counts at 0.
TimedOut == [passed |-> 0, failed |-> 0, total |-> 0, exit_code |-> -1]

\* what discover_agent.run can return
RunOutputs == TestOutputs \cup {TimedOut}

ErrorInfo(f, n, bt, msg) ==
    [file |-> f, line_number |-> n, bug_type |-> bt, message |-> msg]

\* The message texts the model tells apart.
MsgNameError   == "NameError: name 'x' is not defined"
MsgNoModule    == "ModuleNotFoundError: No module named 'm'"
MsgAssertNone  == "AssertionError: assert None == 1"
MsgAssert      == "AssertionError: assert f(2, 3) == 5"
MsgSyntax      == "SyntaxError: invalid syntax"
MsgIndent      == "IndentationError: unexpected indent"
MsgUnused      == "Unused import 'm'"
\* an error of another type whose text quotes a NameError
MsgWrapped     == "RuntimeError: NameError: name 'x' is not defined"

\* "NameError" in msg
HasNameError(msg) == msg \in {MsgNameError, MsgWrapped}
\* "ImportError" in msg or "ModuleNotFoundError" in msg
HasImportError(msg) == msg = MsgNoModule
\* re.search(r"name ['\"]?(\w+)['\"]? is not defined", msg)
NameNotDefined(msg) == msg \in {MsgNameError, MsgWrapped}
\* "none" in msg.lower()
MentionsNone(msg) == msg = MsgAssertNone

\* The Defects an analysis pass may report: in Python and other files, on
\* lines that exist or not, in a file that exists or not.
DefectSpace == { ErrorInfo("a.py", 1, "SYNTAX", MsgSyntax),
                 ErrorInfo("a.py", 2, "IMPORT", MsgNameError),
                 ErrorInfo("b.py", 1, "LOGIC", MsgAssertNone),
                 ErrorInfo("b.py", 2, "INDENTATION", MsgIndent),
                 ErrorInfo("c.js", 1, "LINTING", MsgUnused),
                 ErrorInfo("unknown", 0, "LOGIC", MsgAssert) }

RECURSIVE SeqsUpTo(_, _)
SeqsUpTo(S, n) ==
    IF n = 0 THEN { <<>> }
    ELSE LET shorter == SeqsUpTo(S, n - 1)
         IN  shorter \cup { Append(q, x) : q \in shorter, x \in S }

Key(e) == <<e.file, e.line_number>>

NoDuplicates(es) ==
    \A j, k \in 1..Len(es) : j # k => Key(es[j]) # Key(es[k])

FixRec(f, bt, n, before, after, st) ==
    [file |-> f, bug_type |-> bt, line_number |-> n,
     original_code |-> before, fixed_code |-> after, status |-> st]

NoFixYet == FixRec("", "", 0, <<>>, <<>>, "NONE")

\* faulty variant of IterationRec: every Iteration carries the ordinal 0
IterationRecUnnumbered(n, out, found, applied, st) ==
    [number |-> 0, passed |-> out.passed, failed |-> out.failed,
     total |-> out.total, errors_found |-> found, fixes_applied |-> applied,
     status |-> st]

IterationRec(n, out, found, applied, st) ==
    [number |-> n, passed |-> out.passed, failed |-> out.failed,
     total |-> out.total, errors_found |-> found, fixes_applied |-> applied,
     status |-> st]

RunResult(st, fs, its, tc, msg) ==
    [status |-> st, fixes |-> fs, iterations |-> its, total_commits |-> tc,
     error_message |-> msg]

(***************************************************************************)
(* Faulty variants of the controller's and the analysis' tests, against    *)
(* which the properties below are tried: each must break one of them.      *)
(***************************************************************************)
\* mutant of AllPassed: the pass test as the specification words it
AllPassedNonZeroTotal(out) == out.failed = 0 /\ out.total > 0 /\ out.exit_code = 0

\* mutant of InRange: one round too many
InRangeOffByOne(n, budget) == n <= budget + 1

\* mutant of AllPassed: the exit code is not looked at
AllPassedIgnoringExit(out) == out.failed = 0

\* mutant of NoDefects: the empty list is not noticed
NoDefectsNever(es) == FALSE

\* mutant of Merge: findings are appended without looking at the dedup set
MergeKeepingAll(errs, seen, found) ==
    [errors |-> errs \o found,
     seen   |-> seen \cup { Key(found[k]) : k \in DOMAIN found }]

\* mutant of MarkVerified: the passing re-test marks nothing
MarkNothing(fs) == fs

\* mutant of Recorded: a Fix whose commit failed is recorded as APPLIED
RecordedAlwaysApplied(fx, committed) == [fx EXCEPT !.status = "APPLIED"]

\* mutant of AllPassed: a run that executed no test does not pass
AllPassedNeedsTests(out) == out.failed = 0 /\ out.exit_code = 0 /\ out.passed > 0

\* mutant of Recorded: the Fix is appended with the status it was returned with
RecordedAsReturned(fx, committed) == fx

\* the revert writes the content it kept over every file of the tree
RevertWholeTree(dsk, f, original) == [g \in DOMAIN dsk |-> original]

\* the revert is left out
RevertSkipped(dsk, f, original) == dsk

\* the tracer hands back the Defect it was given when nothing is traced
TraceEchoesDefect(err, failure, seen) == IF failure.file = "" THEN err ELSE failure

(***************************************************************************)
(* The fix engine: HealAgent._get_strategies and the strategy results.     *)
(***************************************************************************)
common == << "missing_colon", "unmatched_parens", "unmatched_quotes", "bad_indent" >>

_get_strategies(bug_type) ==
    CASE bug_type = "SYNTAX" ->
           << "missing_colon", "unmatched_parens", "unmatched_quotes",
              "trailing_garbage", "bad_indent" >>
      [] bug_type = "INDENTATION" ->
           << "fix_exec_indentation", "bad_indent", "tab_to_spaces" >>
      [] bug_type = "IMPORT" ->
           << "fix_name_not_defined", "fix_module_typo", "fix_import_name_typo",
              "missing_colon" >> \o common
      [] bug_type = "TYPE_ERROR" -> << "type_conversion" >> \o common
      [] bug_type = "LINTING" -> << "trailing_whitespace", "unused_import" >>
      [] bug_type = "LOGIC" ->
           << "fix_missing_return", "fix_wrong_operator", "eq_vs_assign",
              "off_by_one" >>
      [] OTHER -> common

\* What a strategy function returns: None, a replacement text for the
\* Defect's line, or the "__CROSSFILE__ path|||line|||text" protocol string.
NoCandidate          == [kind |-> "none",  target |-> "", line |-> 0, text |-> <<>>]
SameFileEdit(t)      == [kind |-> "line",  target |-> "", line |-> 0, text |-> t]
CrossFileEdit(f, n, t) == [kind |-> "cross", target |-> f, line |-> n, text |-> t]

\* _fix_name_not_defined: cases 1 and 2 rewrite an import line of the
\* Defect's own file (case 1 writes group(1) + name, which is the line itself
\* when the alias already equals the name); case 3 replaces line 1 by a new
\* import line followed by the old line 1.
_fix_name_not_defined(error, lines) ==
    IF ~NameNotDefined(error.message) THEN {NoCandidate}
    ELSE {NoCandidate}
         \cup { CrossFileEdit(error.file, k, <<Ln(b, FALSE)>>) :
                k \in 1..Len(lines), b \in Bodies }
         \cup { CrossFileEdit(error.file, 1, <<Ln("alt", FALSE), RStrip(lines[1])>>) }

\* _fix_wrong_operator: rewrites one line of a .py file found by scanning
\* the tree; str.replace of an operator always yields a text other than the
\* line it read.
_fix_wrong_operator(error, dsk) ==
    {NoCandidate}
    \cup { c \in { CrossFileEdit(f, k, <<Ln(b, FALSE)>>) :
                   f \in PyFiles, k \in 1..2, b \in Bodies } :
           /\ c.line <= Len(dsk[c.target])
           /\ c.text[1].body # dsk[c.target][c.line].body }

\* _fix_missing_return: only when the message mentions None; rewrites an
\* exec(...) line of a .py file found by scanning the tree.
_fix_missing_return(error, dsk) ==
    IF ~MentionsNone(error.message) THEN {NoCandidate}
    ELSE _fix_wrong_operator(error, dsk)

\* Every other strategy returns None or a text for the Defect's own line:
\* a line without trailing white space, the line with its trailing white
\* space changed, or a header line followed by an inserted body line
\* ("...:\n    pass").
SameFileCandidates(line) ==
    {NoCandidate}
    \cup { SameFileEdit(<<Ln(b, FALSE)>>) : b \in Bodies }
    \cup { SameFileEdit(<<Ln(line.body, ~line.ws)>>) }
    \cup { SameFileEdit(<<Ln(b, FALSE), Ln("ok", FALSE)>>) : b \in {"ok", "bad"} }

StrategyResults(name, error, lines, dsk) ==
    CASE name = "fix_name_not_defined" -> _fix_name_not_defined(error, lines)
      [] name = "fix_missing_return" -> _fix_missing_return(error, dsk)
      [] name = "fix_wrong_operator" -> _fix_wrong_operator(error, dsk)
      [] OTHER -> SameFileCandidates(lines[error.line_number])

\* new_lines[n - 1] = text; "".join(new_lines), read back with splitlines
Splice(lines, n, text) ==
    SubSeq(lines, 1, n - 1) \o text \o SubSeq(lines, n + 1, Len(lines))

\* line 157: the candidate is the original line up to trailing white space
IsNoOp(text, original_line) == RStripText(text) = <<RStrip(original_line)>>

\* line 168: only .py files are re-parsed
IsPython(f) == f \in PyFiles

(***************************************************************************)
(* The iteration controller's tests.                                       *)
(***************************************************************************)
\* orchestrator.py lines 96, 169, 184-186
AllPassed(out) == out.failed = 0 /\ out.exit_code = 0

\* orchestrator.py lines 88, 161
IterationStatus(out) == IF out.failed = 0 THEN "PASSED" ELSE "FAILED"

\* orchestrator.py line 109: for i in range(1, MAX_ITERATIONS + 1)
InRange(n, budget) == n <= budget

\* orchestrator.py lines 172-174
MarkVerified(fs) ==
    [k \in DOMAIN fs |->
        IF fs[k].status = "APPLIED" THEN [fs[k] EXCEPT !.status = "VERIFIED"]
        ELSE fs[k]]

\* orchestrator.py line 120: if not errors
NoDefects(es) == Len(es) = 0

\* orchestrator.py line 153
AppliedCount(fs) == Cardinality({k \in DOMAIN fs : fs[k].status = "APPLIED"})

(***************************************************************************)
(* AnalyzeAgent.run: the four sources merged under one dedup set.          *)
(***************************************************************************)
\* lines 43-48, 59-64, 78-83: append the findings whose key is not yet seen
RECURSIVE Merge(_, _, _)
Merge(errs, seen, found) ==
    IF found = <<>> THEN [errors |-> errs, seen |-> seen]
    ELSE LET err == Head(found) IN
         IF Key(err) \notin seen
         THEN Merge(Append(errs, err), seen \cup {Key(err)}, Tail(found))
         ELSE Merge(errs, seen, Tail(found))

NoRoot == ErrorInfo("", 0, "", "")

\* _trace_to_root_cause: failure is what py_compile reports for the file the
\* Defect's name or module resolves to (NoRoot when nothing resolves or the
\* file compiles)
_trace_to_root_cause(err, failure, seen) ==
    LET is_name_error   == HasNameError(err.message)
        is_import_error == err.bug_type = "IMPORT" \/ HasImportError(err.message)
    IN  IF ~is_name_error /\ ~is_import_error THEN NoRoot
        ELSE IF failure = NoRoot THEN NoRoot
        ELSE IF Key(failure) \in seen THEN NoRoot          \* lines 372-374
        ELSE failure

\* lines 67-74: for err in list(errors)
RECURSIVE TraceAll(_, _, _, _)
TraceAll(errs, failures, seen, traced) ==
    IF errs = <<>> THEN [traced |-> traced, seen |-> seen]
    ELSE LET err     == Head(errs)
             failure == IF err \in DOMAIN failures THEN failures[err] ELSE NoRoot
             root    == _trace_to_root_cause(err, failure, seen)
         IN
         IF root # NoRoot /\ Key(root) \notin seen
         THEN TraceAll(Tail(errs), failures, seen \cup {Key(root)}, Append(traced, root))
         ELSE TraceAll(Tail(errs), failures, seen, traced)

\* lines 67-74: the calls of the tracer in one analysis pass, each with the
\* Defect it was given and what it returned
RECURSIVE TraceLog(_, _, _, _)
TraceLog(errs, failures, seen, log) ==
    IF errs = <<>> THEN log
    ELSE LET err     == Head(errs)
             failure == IF err \in DOMAIN failures THEN failures[err] ELSE NoRoot
             root    == _trace_to_root_cause(err, failure, seen)
             entry   == [err |-> err, root |-> root]
         IN
         IF root # NoRoot /\ Key(root) \notin seen
         THEN TraceLog(Tail(errs), failures, seen \cup {Key(root)}, Append(log, entry))
         ELSE TraceLog(Tail(errs), failures, seen, Append(log, entry))

TraceCalls(in) ==
    LET scanned == Merge(<<>>, {}, in.scan)
        tested  == Merge(scanned.errors, scanned.seen, in.runtime)
    IN  TraceLog(tested.errors, in.failures, tested.seen, <<>>)

\* line 86 with its operands exchanged: the traced Defects come last
AnalyzeAgentRunTracedLast(in) ==
    LET scanned == Merge(<<>>, {}, in.scan)
        tested  == Merge(scanned.errors, scanned.seen, in.runtime)
        tracing == TraceAll(tested.errors, in.failures, tested.seen, <<>>)
        linted  == Merge(tested.errors, tracing.seen, in.lint)
    IN  linted.errors \o tracing.traced

\* lines 39-89
AnalyzeAgentRun(in) ==
    LET scanned == Merge(<<>>, {}, in.scan)
        tested  == Merge(scanned.errors, scanned.seen, in.runtime)
        tracing == TraceAll(tested.errors, in.failures, tested.seen, <<>>)
        linted  == Merge(tested.errors, tracing.seen, in.lint)
    IN  tracing.traced \o linted.errors

\* What the four sources may find.  The static scan reports at most one
\* failure per file; the other sources may repeat a location.
ScanSpace    == { ErrorInfo("a.py", 1, "SYNTAX", MsgSyntax),
                  ErrorInfo("b.py", 2, "INDENTATION", MsgIndent) }
RuntimeSpace == { ErrorInfo("a.py", 1, "LOGIC", MsgAssert),
                  ErrorInfo("t.py", 1, "IMPORT", MsgNameError),
                  ErrorInfo("t.py", 1, "IMPORT", MsgNoModule),
                  ErrorInfo("t.py", 2, "LOGIC", MsgWrapped) }
LintSpace    == { ErrorInfo("t.py", 1, "LINTING", MsgUnused),
                  ErrorInfo("b.py", 1, "LINTING", MsgUnused) }
FailureSpace == ScanSpace \cup { ErrorInfo("b.py", 1, "SYNTAX", MsgSyntax), NoRoot }

OnePerFile(es) == \A j, k \in 1..Len(es) : j # k => es[j].file # es[k].file

AnalysisInputs ==
    [ scan     : { es \in SeqsUpTo(ScanSpace, MaxFindings) : OnePerFile(es) },
      runtime  : SeqsUpTo(RuntimeSpace, MaxFindings),
      failures : [RuntimeSpace -> FailureSpace],
      lint     : SeqsUpTo(LintSpace, MaxFindings) ]

(***************************************************************************)
(* Initial state: run_pipeline lines 52-67, on a freshly cloned tree.      *)
(***************************************************************************)
InitDisks ==
    { [f \in Files |-> IF f = "a.py" THEN <<Ln("bad", TRUE), Ln("ok", FALSE)>>
                                      ELSE <<Ln("ok", FALSE)>>] }

DefectLists(limit) == { es \in SeqsUpTo(DefectSpace, limit) : NoDuplicates(es) }

\* the single-Run specifications use neither the thread pool nor CLONE_DIR
NoConcurrentRuns ==
    /\ runs = <<>>
    /\ clone_dir = <<>>
    /\ results_file = 0

\* no test output is being parsed on its own
NoReport ==
    /\ report = <<>>
    /\ located = <<>>
    /\ written = {}

\* the tracer is not being called on its own
NoTrace ==
    /\ tr_err = <<>>
    /\ tr_seen = {}
    /\ tr_target = <<>>
    /\ tr_results = <<>>

\* no strategy is being called on its own
NoCall ==
    /\ fn_in = <<>>
    /\ fn_out = <<>>

Init ==
    /\ pc = "clone"
    /\ max_iterations \in 1..MaxBudget
    /\ i = 0
    /\ test_output = NoOutput
    /\ current_output = NoOutput
    /\ errors = <<>>
    /\ iterations = <<>>
    /\ all_fixes = <<>>
    /\ total_commits = 0
    /\ result = RunResult("RUNNING", <<>>, <<>>, 0, "")
    /\ saved = <<>>
    /\ calls = [analyze |-> 0, heal |-> 0, verify |-> 0, defects |-> 0]
    /\ exc = ""
    /\ hidx = 0
    /\ fixes = <<>>
    /\ commit_count = 0
    /\ fix = NoFixYet
    /\ sidx = 0
    /\ original_content = <<>>
    /\ disk \in InitDisks
    /\ reparse_ok = [f \in Files |-> FALSE]
    /\ git_log = <<>>
    /\ an_in = <<>>
    /\ an_out = <<>>
    /\ NoConcurrentRuns
    /\ NoReport
    /\ NoTrace
    /\ NoCall

(***************************************************************************)
(* run_pipeline.                                                           *)
(***************************************************************************)
\* line 75: clone_agent.run
Clone ==
    /\ pc = "clone"
    /\ pc' = "discover"
    /\ UNCHANGED <<max_iterations, i, test_output, current_output, errors,
                   iterations, all_fixes, total_commits, result, saved, calls, exc>>
    /\ UNCHANGED <<healVars, anVars, ccVars, vdVars, trVars, fnVars>>

\* lines 82-107: the initial test run, Iteration 0 and the already-passing check
Discover ==
    /\ pc = "discover"
    /\ \E out \in RunOutputs :
         /\ test_output' = out
         /\ iterations' = Append(iterations,
                                 IterationRec(0, out, 0, 0, IterationStatus(out)))
         /\ IF AllPassed(out)
            THEN /\ result' = [result EXCEPT !.status = "PASSED",
                                             !.iterations = iterations']
                 /\ pc' = "early_save"
                 /\ UNCHANGED <<current_output, i>>
            ELSE /\ current_output' = out
                 /\ i' = 1
                 /\ pc' = IF InRange(1, max_iterations) THEN "analyze" ELSE "finalize"
                 /\ UNCHANGED result
    /\ UNCHANGED <<max_iterations, errors, all_fixes, total_commits, saved, calls, exc>>
    /\ UNCHANGED <<healVars, anVars, ccVars, vdVars, trVars, fnVars>>

\* lines 103-104: results_service.save(result); return result
EarlySave ==
    /\ pc = "early_save"
    /\ saved' = <<result>>
    /\ pc' = "done"
    /\ UNCHANGED <<max_iterations, i, test_output, current_output, errors,
                   iterations, all_fixes, total_commits, result, calls, exc>>
    /\ UNCHANGED <<healVars, anVars, ccVars, vdVars, trVars, fnVars>>

\* lines 116-139: analyze_agent.run and the empty-list branch
Analyze ==
    /\ pc = "analyze"
    /\ \E es \in DefectLists(MaxDefects - calls.defects) :
         /\ errors' = es
         /\ calls' = [calls EXCEPT !.analyze = @ + 1, !.defects = @ + Len(es)]
         /\ IF NoDefects(es)
            THEN /\ iterations' = Append(iterations,
                                         IterationRec(i, current_output, 0, 0, "FAILED"))
                 /\ pc' = "finalize"
            ELSE /\ pc' = "heal"
                 /\ UNCHANGED iterations
    /\ UNCHANGED <<max_iterations, i, test_output, current_output, all_fixes,
                   total_commits, result, saved, exc>>
    /\ UNCHANGED <<healVars, anVars, ccVars, vdVars, trVars, fnVars>>

\* lines 151-180: verify_agent.run, the round's Iteration, the pass check
Verify ==
    /\ pc = "verify"
    /\ \E out \in RunOutputs :
         /\ current_output' = out
         /\ iterations' = Append(iterations,
                                 IterationRec(i, out, Len(errors), AppliedCount(fixes),
                                              IterationStatus(out)))
         /\ IF AllPassed(out)
            THEN /\ all_fixes' = MarkVerified(all_fixes)
                 /\ pc' = "finalize"
                 /\ UNCHANGED i
            ELSE /\ i' = i + 1
                 /\ pc' = IF InRange(i + 1, max_iterations) THEN "analyze" ELSE "finalize"
                 /\ UNCHANGED all_fixes
    /\ calls' = [calls EXCEPT !.verify = @ + 1]
    /\ UNCHANGED <<max_iterations, test_output, errors, total_commits, result, saved, exc>>
    /\ UNCHANGED <<healVars, anVars, ccVars, vdVars, trVars, fnVars>>

\* lines 183-193
Finalize ==
    /\ pc = "finalize"
    /\ result' = RunResult(IF AllPassed(current_output) THEN "PASSED" ELSE "FAILED",
                           all_fixes, iterations, total_commits, result.error_message)
    /\ pc' = "save"
    /\ UNCHANGED <<max_iterations, i, test_output, current_output, errors,
                   iterations, all_fixes, total_commits, saved, calls, exc>>
    /\ UNCHANGED <<healVars, anVars, ccVars, vdVars, trVars, fnVars>>

\* a step inside the try block raises
RaisingSteps == {"clone", "discover", "early_save", "analyze", "heal", "strategy", "verify"}

\* The exception unwinds the frames of _fix_error and HealAgent.run: their
\* locals are gone when the except block of run_pipeline is entered.
Raise ==
    /\ pc \in RaisingSteps
    /\ exc' = pc
    /\ pc' = "except"
    /\ hidx' = 0
    /\ sidx' = 0
    /\ fix' = NoFixYet
    /\ original_content' = <<>>
    /\ IF pc = "strategy"
       THEN fixes' = <<>> /\ commit_count' = 0
       ELSE UNCHANGED <<fixes, commit_count>>
    /\ UNCHANGED <<max_iterations, i, test_output, current_output, errors,
                   iterations, all_fixes, total_commits, result, saved, calls>>
    /\ UNCHANGED <<disk, reparse_ok, git_log>>
    /\ UNCHANGED <<anVars, ccVars, vdVars, trVars, fnVars>>

\* lines 201-208: except Exception
Except ==
    /\ pc = "except"
    /\ result' = [result EXCEPT !.status = "ERROR", !.error_message = exc,
                                !.iterations = iterations, !.fixes = all_fixes]
    /\ pc' = "save"
    /\ UNCHANGED <<max_iterations, i, test_output, current_output, errors,
                   iterations, all_fixes, total_commits, saved, calls, exc>>
    /\ UNCHANGED <<healVars, anVars, ccVars, vdVars, trVars, fnVars>>

\* lines 211-212: results_service.save(result) outside the try block; when
\* it raises, the exception leaves run_pipeline
Save ==
    /\ pc = "save"
    /\ \E ok \in BOOLEAN :
         IF ok THEN saved' = <<result>> /\ pc' = "done" /\ UNCHANGED exc
               ELSE pc' = "raised" /\ UNCHANGED saved
    /\ UNCHANGED <<max_iterations, i, test_output, current_output, errors,
                   iterations, all_fixes, total_commits, result, calls, exc>>
    /\ UNCHANGED <<healVars, anVars, ccVars, vdVars, trVars, fnVars>>

(***************************************************************************)
(* HealAgent.run and HealAgent._fix_error.                                 *)
(***************************************************************************)
\* heal_agent.run lines 49-60 (called at orchestrator.py line 143)
HealBegin ==
    /\ pc = "heal"
    /\ fixes' = <<>>
    /\ commit_count' = 0
    /\ hidx' = 1
    /\ calls' = [calls EXCEPT !.heal = @ + 1]
    /\ pc' = "heal_loop"
    /\ UNCHANGED <<max_iterations, i, test_output, current_output, errors,
                   iterations, all_fixes, total_commits, result, saved, exc>>
    /\ UNCHANGED <<fix, sidx, original_content, disk, reparse_ok, git_log>>
    /\ UNCHANGED <<anVars, ccVars, vdVars, trVars, fnVars>>

\* heal_agent.run lines 62-66 and _fix_error lines 103-124: take the next
\* Defect, read its file, return None when the file or the line is missing
HealNext ==
    /\ pc = "heal_loop"
    /\ hidx <= Len(errors)
    /\ LET error == errors[hidx] IN
         IF error.file \notin DOMAIN disk
         THEN /\ hidx' = hidx + 1
              /\ UNCHANGED <<pc, sidx, original_content>>
         ELSE /\ original_content' = disk[error.file]
              /\ IF error.line_number < 1 \/ error.line_number > Len(disk[error.file])
                 THEN hidx' = hidx + 1 /\ UNCHANGED <<pc, sidx>>
                 ELSE sidx' = 1 /\ pc' = "strategy" /\ UNCHANGED hidx
    /\ UNCHANGED <<fixes, commit_count, fix, disk, reparse_ok, git_log>>
    /\ UNCHANGED <<max_iterations, i, test_output, current_output, errors,
                   iterations, all_fixes, total_commits, result, saved, calls, exc>>
    /\ UNCHANGED <<anVars, ccVars, vdVars, trVars, fnVars>>

\* Path.write_text: the content on disk is new and has not been re-parsed
WriteText(dsk, f, content) == [dsk EXCEPT ![f] = content]
Unchecked(ok, f) == [ok EXCEPT ![f] = FALSE]
Checked(ok, f)   == [ok EXCEPT ![f] = TRUE]

\* _fix_error lines 181 and 196: file_path.write_text(original_content)
Revert(dsk, f, original) == WriteText(dsk, f, original)

\* _fix_error lines 127-193: what one strategy's candidate c does to the
\* tree, and the Fix returned when it is accepted
Attempt(c, error, lines, dsk, ok) ==
    LET n    == error.line_number
        skip == [accepted |-> FALSE, disk |-> dsk, reparse_ok |-> ok, fix |-> NoFixYet]
    IN
    CASE c.kind = "none" -> skip                                  \* lines 128-129
      [] c.kind = "cross" ->                                      \* lines 132-155
           IF c.target \in DOMAIN dsk /\ c.line \in 1..Len(dsk[c.target])
           THEN [accepted   |-> TRUE,
                 disk       |-> WriteText(dsk, c.target,
                                          Splice(dsk[c.target], c.line, c.text)),
                 reparse_ok |-> Unchecked(ok, c.target),
                 fix        |-> FixRec(c.target, error.bug_type, c.line,
                                       CrossFileMarker, RStripText(c.text), "APPLIED")]
           ELSE skip
      [] c.kind = "line" ->
           IF IsNoOp(c.text, lines[n]) THEN skip                  \* lines 157-158
           ELSE LET new_content == Splice(lines, n, c.text)
                    pending == FixRec(error.file, error.bug_type, n,
                                      <<RStrip(lines[n])>>, RStripText(c.text),
                                      "PENDING")
                IN
                IF IsPython(error.file)
                THEN IF Parses(new_content)
                     THEN [accepted   |-> TRUE,                   \* lines 165-178
                           disk       |-> WriteText(dsk, error.file, new_content),
                           reparse_ok |-> Checked(ok, error.file),
                           fix        |-> pending]
                     ELSE \* lines 179-183: written, rejected, reverted
                          [accepted   |-> FALSE,
                           disk       |-> Revert(WriteText(dsk, error.file, new_content),
                                                 error.file, lines),
                           reparse_ok |-> Unchecked(ok, error.file),
                           fix        |-> NoFixYet]
                ELSE \* lines 184-193: not Python, accepted without the check
                     [accepted   |-> TRUE,
                      disk       |-> WriteText(dsk, error.file, new_content),
                      reparse_ok |-> Unchecked(ok, error.file),
                      fix        |-> pending]

\* _fix_error lines 126-198: one turn of the strategy loop, or the
\* fall-through after the last strategy
TryStrategy ==
    /\ pc = "strategy"
    /\ LET error      == errors[hidx]
           strategies == _get_strategies(error.bug_type)
       IN
       IF sidx > Len(strategies)
       THEN \* lines 195-198: all strategies failed, write the original back
            /\ disk' = Revert(disk, error.file, original_content)
            /\ reparse_ok' = Unchecked(reparse_ok, error.file)
            /\ hidx' = hidx + 1
            /\ pc' = "heal_loop"
            /\ sidx' = 0
            /\ UNCHANGED fix
       ELSE \E c \in StrategyResults(strategies[sidx], error, original_content, disk) :
            LET a == Attempt(c, error, original_content, disk, reparse_ok) IN
            /\ disk' = a.disk
            /\ reparse_ok' = a.reparse_ok
            /\ IF a.accepted
               THEN fix' = a.fix /\ pc' = "commit" /\ sidx' = 0
               ELSE sidx' = sidx + 1 /\ UNCHANGED <<pc, fix>>
            /\ UNCHANGED hidx
    /\ UNCHANGED <<fixes, commit_count, original_content, git_log>>
    /\ UNCHANGED <<max_iterations, i, test_output, current_output, errors,
                   iterations, all_fixes, total_commits, result, saved, calls, exc>>
    /\ UNCHANGED <<anVars, ccVars, vdVars, trVars, fnVars>>

\* heal_agent.run lines 76 and 83: the status the Fix is recorded with
Recorded(fx, committed) ==
    [fx EXCEPT !.status = IF committed THEN "APPLIED" ELSE "FAILED"]

\* heal_agent.run lines 68-84: commit the returned Fix, record it
Commit ==
    /\ pc = "commit"
    /\ \E committed \in BOOLEAN :
         /\ fixes' = Append(fixes, Recorded(fix, committed))
         /\ IF committed
            THEN /\ commit_count' = commit_count + 1
                 /\ git_log' = Append(git_log, <<fix.file, fix.line_number>>)
            ELSE UNCHANGED <<commit_count, git_log>>
    /\ hidx' = hidx + 1
    /\ pc' = "heal_loop"
    /\ fix' = NoFixYet
    /\ UNCHANGED <<sidx, original_content, disk, reparse_ok>>
    /\ UNCHANGED <<max_iterations, i, test_output, current_output, errors,
                   iterations, all_fixes, total_commits, result, saved, calls, exc>>
    /\ UNCHANGED <<anVars, ccVars, vdVars, trVars, fnVars>>

\* heal_agent.run lines 86-94 and orchestrator.py lines 146-147: the pass
\* returns, its Fixes and commit count are added to the Run's
HealEnd ==
    /\ pc = "heal_loop"
    /\ hidx > Len(errors)
    /\ all_fixes' = all_fixes \o fixes
    /\ total_commits' = total_commits + commit_count
    /\ pc' = "verify"
    /\ hidx' = 0
    /\ original_content' = <<>>
    /\ UNCHANGED <<max_iterations, i, test_output, current_output, errors,
                   iterations, result, saved, calls, exc>>
    /\ UNCHANGED <<fixes, commit_count, fix, sidx, disk, reparse_ok, git_log>>
    /\ UNCHANGED <<anVars, ccVars, vdVars, trVars, fnVars>>

Next ==
    \/ Clone
    \/ Discover
    \/ EarlySave
    \/ Analyze
    \/ HealBegin
    \/ HealNext
    \/ TryStrategy
    \/ Commit
    \/ HealEnd
    \/ Verify
    \/ Finalize
    \/ Raise
    \/ Except
    \/ Save

Spec == Init /\ [][Next]_vars

(***************************************************************************)
(* One analysis pass on its own: every combination of findings.            *)
(***************************************************************************)
InitAnalyze ==
    /\ pc = "analysis"
    /\ an_in \in AnalysisInputs
    /\ an_out = <<>>
    /\ NoConcurrentRuns
    /\ NoReport
    /\ NoTrace
    /\ NoCall
    /\ max_iterations = MaxBudget
    /\ i = 0
    /\ test_output = NoOutput
    /\ current_output = NoOutput
    /\ errors = <<>>
    /\ iterations = <<>>
    /\ all_fixes = <<>>
    /\ total_commits = 0
    /\ result = RunResult("RUNNING", <<>>, <<>>, 0, "")
    /\ saved = <<>>
    /\ calls = [analyze |-> 0, heal |-> 0, verify |-> 0, defects |-> 0]
    /\ exc = ""
    /\ hidx = 0
    /\ fixes = <<>>
    /\ commit_count = 0
    /\ fix = NoFixYet
    /\ sidx = 0
    /\ original_content = <<>>
    /\ disk \in InitDisks
    /\ reparse_ok = [f \in Files |-> FALSE]
    /\ git_log = <<>>

\* analyze_agent.run lines 29-89
AnalyzeRun ==
    /\ pc = "analysis"
    /\ an_out' = AnalyzeAgentRun(an_in)
    /\ pc' = "analysed"
    /\ UNCHANGED <<max_iterations, i, test_output, current_output, errors,
                   iterations, all_fixes, total_commits, result, saved, calls, exc>>
    /\ UNCHANGED <<healVars, an_in, ccVars, vdVars, trVars, fnVars>>

NextAnalyze == AnalyzeRun

SpecAnalyze == InitAnalyze /\ [][NextAnalyze]_vars

(***************************************************************************)
(* Two Runs on the thread pool of main.py (max_workers = 2).  Each Run is   *)
(* run_pipeline reduced to the steps that touch what Runs can share: the    *)
(* folder under CLONE_DIR and the file RESULTS_PATH.  The Defect, Fix and   *)
(* Iteration lists are locals of run_pipeline: each Run has its own.        *)
(***************************************************************************)
MaxEdits == 2

Runs == {1, 2}

\* team names of the two requests, as character sequences
TeamNames == { <<"a", " ", "b">>, <<" ", "A", "_", "B">>, <<"a", "b">> }

IsSpace(c) == c = " "

\* str.strip(): drops leading and trailing whitespace
RECURSIVE LStrip(_)
LStrip(t) == IF Len(t) > 0 /\ IsSpace(Head(t)) THEN LStrip(Tail(t)) ELSE t

RECURSIVE RStripName(_)
RStripName(t) ==
    IF Len(t) > 0 /\ IsSpace(t[Len(t)]) THEN RStripName(SubSeq(t, 1, Len(t) - 1)) ELSE t

Strip(t) == RStripName(LStrip(t))

\* str.upper() on one character
Upper(c) == CASE c = "a" -> "A" [] c = "b" -> "B" [] OTHER -> c

\* clone_agent.py line 31: team_name.strip().replace(" ", "_").upper()
Folder(t) ==
    [k \in 1..Len(Strip(t)) |-> Upper(IF Strip(t)[k] = " " THEN "_" ELSE Strip(t)[k])]

Folders == { Folder(t) : t \in TeamNames }

\* a folder of CLONE_DIR: the Run whose clone it holds (0: no folder) and the
\* Runs whose heal pass wrote into it
NoTree == [owner |-> 0, writers |-> {}]

Dest(r) == Folder(runs[r].team)

InitRuns ==
    /\ pc = "runs"
    /\ runs \in [Runs -> { [pc |-> "queued", team |-> t, status |-> "RUNNING", edits |-> 0] :
                           t \in TeamNames }]
    /\ clone_dir = [d \in Folders |-> NoTree]
    /\ results_file = 0
    /\ NoReport
    /\ NoTrace
    /\ NoCall
    /\ max_iterations = MaxBudget
    /\ i = 0
    /\ test_output = NoOutput
    /\ current_output = NoOutput
    /\ errors = <<>>
    /\ iterations = <<>>
    /\ all_fixes = <<>>
    /\ total_commits = 0
    /\ result = RunResult("RUNNING", <<>>, <<>>, 0, "")
    /\ saved = <<>>
    /\ calls = [analyze |-> 0, heal |-> 0, verify |-> 0, defects |-> 0]
    /\ exc = ""
    /\ hidx = 0
    /\ fixes = <<>>
    /\ commit_count = 0
    /\ fix = NoFixYet
    /\ sidx = 0
    /\ original_content = <<>>
    /\ disk \in InitDisks
    /\ reparse_ok = [f \in Files |-> FALSE]
    /\ git_log = <<>>
    /\ an_in = <<>>
    /\ an_out = <<>>

\* main.py lines 75-79: the executor starts run_pipeline on a free worker
StartRun(r) ==
    /\ runs[r].pc = "queued"
    /\ runs' = [runs EXCEPT ![r].pc = "remove"]
    /\ UNCHANGED <<clone_dir, results_file>>
    /\ UNCHANGED <<runVars, healVars, anVars, vdVars, trVars, fnVars>>

\* clone_agent.py lines 31-37: an existing dest is removed, whoever made it
RemovePrevious(r) ==
    /\ runs[r].pc = "remove"
    /\ clone_dir' = [clone_dir EXCEPT ![Dest(r)] = NoTree]
    /\ runs' = [runs EXCEPT ![r].pc = "fetch"]
    /\ UNCHANGED <<results_file, runVars, healVars, anVars, vdVars, trVars, fnVars>>

\* clone_agent.py lines 40-46: git clone into dest; git refuses a dest that
\* exists by now, and run_pipeline's handler turns the exception into ERROR
CloneRepo(r) ==
    /\ runs[r].pc = "fetch"
    /\ IF clone_dir[Dest(r)] = NoTree
       THEN /\ clone_dir' = [clone_dir EXCEPT ![Dest(r)] = [owner |-> r, writers |-> {}]]
            /\ runs' = [runs EXCEPT ![r].pc = "work"]
       ELSE /\ clone_dir' = clone_dir
            /\ runs' = [runs EXCEPT ![r].pc = "save", ![r].status = "ERROR"]
    /\ UNCHANGED <<results_file, runVars, healVars, anVars, vdVars, trVars, fnVars>>

\* heal_agent.py lines 98-118: a fix attempt writes a file under repo_path,
\* or finds no file there and gives up on the Defect
HealWrite(r) ==
    /\ runs[r].pc = "work"
    /\ runs[r].edits < MaxEdits
    /\ runs' = [runs EXCEPT ![r].edits = @ + 1]
    /\ clone_dir' = IF clone_dir[Dest(r)] = NoTree
                    THEN clone_dir
                    ELSE [clone_dir EXCEPT ![Dest(r)].writers = @ \cup {r}]
    /\ UNCHANGED <<results_file, runVars, healVars, anVars, vdVars, trVars, fnVars>>

\* orchestrator.py lines 96-103, 184-203: the loop ends with a terminal status
FinishRun(r) ==
    /\ runs[r].pc = "work"
    /\ \E st \in {"PASSED", "FAILED"} :
         runs' = [runs EXCEPT ![r].pc = "save", ![r].status = st]
    /\ UNCHANGED <<clone_dir, results_file>>
    /\ UNCHANGED <<runVars, healVars, anVars, vdVars, trVars, fnVars>>

\* results_service.py lines 19-24: RESULTS_PATH.write_text of this Run's record
SaveRun(r) ==
    /\ runs[r].pc = "save"
    /\ results_file' = r
    /\ runs' = [runs EXCEPT ![r].pc = "done"]
    /\ UNCHANGED <<clone_dir, runVars, healVars, anVars, vdVars, trVars, fnVars>>

NextRuns ==
    \E r \in Runs :
        \/ StartRun(r)
        \/ RemovePrevious(r)
        \/ CloneRepo(r)
        \/ HealWrite(r)
        \/ FinishRun(r)
        \/ SaveRun(r)

SpecRuns == InitRuns /\ [][NextRuns]_vars

(***************************************************************************)
(* Where Defects are located and what the fix engine writes: the output    *)
(* parsers of AnalyzeAgent, _fix_error's write of the Defect's own file    *)
(* and the strategies that choose a file by scanning the tree.  Paths are  *)
(* sequences of segments; `"x" in path` is a test on the segments.         *)
(***************************************************************************)
Paths ==
    { <<"src", "calc.py">>,
      <<"tests", "test_calc.py">>,
      <<"venv", "pkg", "mod.py">>,
      <<".venv", "lib", "python3", "site-packages", "pkg", "mod.py">>,
      <<"lib", "python3", "os.py">>,
      <<"node_modules", "pkg", "index.js">>,
      <<"src", "app.js">> }

PyNames == {"calc.py", "test_calc.py", "mod.py", "os.py"}
JsNames == {"index.js", "app.js"}

HasSegment(path, seg) == \E k \in 1..Len(path) : path[k] = seg

\* "lib/python" in file_path.lower()
HasLibPython(path) ==
    \E k \in 1..(Len(path) - 1) : path[k] = "lib" /\ path[k + 1] = "python3"

\* "test" in rel.lower()
HasTest(path) == \E k \in 1..Len(path) : path[k] \in {"tests", "test_calc.py"}

\* the directories of third-party code: site-packages, lib/python,
\* node_modules, venv, .venv
Vendored(path) ==
    \/ \E seg \in {"site-packages", "node_modules", "venv", ".venv"} :
         HasSegment(path, seg)
    \/ HasLibPython(path)

Patterns == {"pytest_block", "pytest_summary", "traceback", "js_stack", "js_lint"}

\* the regular expression of the pattern matches the reported path
Matches(pattern, path) ==
    IF pattern \in {"js_stack", "js_lint"}
    THEN path[Len(path)] \in JsNames
    ELSE path[Len(path)] \in PyNames

\* the pattern's own test of the path (analyze_agent.py lines 200, 248, 273)
Kept(pattern, path) ==
    CASE pattern = "pytest_block" ->
           ~HasSegment(path, "site-packages") /\ ~HasLibPython(path)
      [] pattern = "pytest_summary" -> TRUE
      [] pattern = "traceback" -> ~HasSegment(path, "site-packages")
      [] pattern = "js_stack" -> ~HasSegment(path, "node_modules")
      [] pattern = "js_lint" -> TRUE

\* _parse_pytest_output and _parse_js_output on one reported location; the
\* summary pattern has no line and gives line_number 0
_parse_output(rep) ==
    IF Matches(rep.pattern, rep.path) /\ Kept(rep.pattern, rep.path)
    THEN << [file |-> rep.path,
             line_number |-> IF rep.pattern = "pytest_summary" THEN 0 ELSE 1] >>
    ELSE << >>

\* heal_agent.py lines 492-495 and 737-741: the files _fix_wrong_operator
\* and _fix_missing_return look into
ScannedBy(strategy) ==
    { path \in Paths :
        /\ path[Len(path)] \in PyNames
        /\ ~HasTest(path)
        /\ ~HasSegment(path, "__pycache__")
        /\ ~HasSegment(path, ".venv")
        /\ ~HasSegment(path, "node_modules") }

CrossStrategies == {"fix_wrong_operator", "fix_missing_return"}

\* the variables of a single Run, at rest
SingleRunIdle ==
    /\ max_iterations = MaxBudget
    /\ i = 0
    /\ test_output = NoOutput
    /\ current_output = NoOutput
    /\ errors = <<>>
    /\ iterations = <<>>
    /\ all_fixes = <<>>
    /\ total_commits = 0
    /\ result = RunResult("RUNNING", <<>>, <<>>, 0, "")
    /\ saved = <<>>
    /\ calls = [analyze |-> 0, heal |-> 0, verify |-> 0, defects |-> 0]
    /\ exc = ""
    /\ hidx = 0
    /\ fixes = <<>>
    /\ commit_count = 0
    /\ fix = NoFixYet
    /\ sidx = 0
    /\ original_content = <<>>
    /\ disk \in InitDisks
    /\ reparse_ok = [f \in Files |-> FALSE]
    /\ git_log = <<>>
    /\ an_in = <<>>
    /\ an_out = <<>>

InitVendored ==
    /\ pc = "parse"
    /\ report \in [pattern : Patterns, path : Paths]
    /\ located = <<>>
    /\ written = {}
    /\ NoConcurrentRuns
    /\ NoTrace
    /\ NoCall
    /\ SingleRunIdle

\* analyze_agent.run lines 52-65: the runtime Defects of the test output
ParseOutput ==
    /\ pc = "parse"
    /\ located' = _parse_output(report)
    /\ pc' = "fix"
    /\ UNCHANGED <<report, written>>
    /\ UNCHANGED <<max_iterations, i, test_output, current_output, errors,
                   iterations, all_fixes, total_commits, result, saved, calls, exc>>
    /\ UNCHANGED <<healVars, anVars, ccVars, trVars, fnVars>>

\* _fix_error lines 103-193 on the Defect found: a candidate for the
\* Defect's own line is written to the Defect's file
FixOwnFile ==
    /\ pc = "fix"
    /\ Len(located) = 1
    /\ located[1].line_number >= 1
    /\ written' = written \cup {located[1].file}
    /\ pc' = "cross"
    /\ UNCHANGED <<report, located>>
    /\ UNCHANGED <<max_iterations, i, test_output, current_output, errors,
                   iterations, all_fixes, total_commits, result, saved, calls, exc>>
    /\ UNCHANGED <<healVars, anVars, ccVars, trVars, fnVars>>

\* _fix_error lines 104-116, 128-129: no Defect, no such line, no candidate
FixNothing ==
    /\ pc = "fix"
    /\ pc' = "cross"
    /\ UNCHANGED <<report, located, written>>
    /\ UNCHANGED <<max_iterations, i, test_output, current_output, errors,
                   iterations, all_fixes, total_commits, result, saved, calls, exc>>
    /\ UNCHANGED <<healVars, anVars, ccVars, trVars, fnVars>>

\* _fix_error lines 132-152 after _fix_wrong_operator or _fix_missing_return
\* chose a file of the tree: the target is written
FixCrossFile ==
    /\ pc = "cross"
    /\ \E strategy \in CrossStrategies :
         \E target \in ScannedBy(strategy) :
            written' = written \cup {target}
    /\ pc' = "fixed"
    /\ UNCHANGED <<report, located>>
    /\ UNCHANGED <<max_iterations, i, test_output, current_output, errors,
                   iterations, all_fixes, total_commits, result, saved, calls, exc>>
    /\ UNCHANGED <<healVars, anVars, ccVars, trVars, fnVars>>

NextVendored ==
    \/ ParseOutput
    \/ FixOwnFile
    \/ FixNothing
    \/ FixCrossFile

SpecVendored == InitVendored /\ [][NextVendored]_vars

(***************************************************************************)
(* _trace_to_root_cause called on its own, any number of times, on one     *)
(* Defect.  The file the Defect's name or module resolves to is compiled   *)
(* with py_compile.compile, which writes the byte-code cache file of a     *)
(* file that compiles.                                                     *)
(***************************************************************************)
MaxCalls == 3

\* nothing resolves: no name or module in the message, no import of the name,
\* no such file (lines 330-362)
NoTarget == [resolves |-> FALSE, parses |-> FALSE, failure |-> NoRoot, cached |-> FALSE]

Targets ==
    {NoTarget}
    \cup [resolves : {TRUE}, parses : {TRUE}, failure : {NoRoot}, cached : BOOLEAN]
    \cup [resolves : {TRUE}, parses : {FALSE}, failure : FailureSpace \ {NoRoot},
          cached : BOOLEAN]

\* lines 316-325: the tracer goes on to resolve the Defect
Gate(err) ==
    \/ HasNameError(err.message)
    \/ err.bug_type = "IMPORT"
    \/ HasImportError(err.message)

\* lines 365-368: what py_compile.compile reports for the target
CompileFailure(err, target) ==
    IF Gate(err) /\ target.resolves /\ ~target.parses THEN target.failure ELSE NoRoot

\* lines 365-367: py_compile.compile of a file that compiles writes its
\* cache file under __pycache__
AfterCompile(err, target) ==
    IF Gate(err) /\ target.resolves /\ target.parses
    THEN [target EXCEPT !.cached = TRUE]
    ELSE target

InitTrace ==
    /\ pc = "trace"
    /\ tr_err \in ScanSpace \cup RuntimeSpace
    /\ tr_seen \in SUBSET { Key(d) : d \in ScanSpace }
    /\ tr_target \in Targets
    /\ tr_results = <<>>
    /\ NoConcurrentRuns
    /\ NoReport
    /\ NoCall
    /\ SingleRunIdle

\* analyze_agent.py lines 311-389: one call of the tracer
TraceCall ==
    /\ pc = "trace"
    /\ Len(tr_results) < MaxCalls
    /\ tr_results' = Append(tr_results,
                            _trace_to_root_cause(tr_err, CompileFailure(tr_err, tr_target),
                                                 tr_seen))
    /\ tr_target' = AfterCompile(tr_err, tr_target)
    /\ UNCHANGED <<tr_err, tr_seen>>
    /\ UNCHANGED <<max_iterations, i, test_output, current_output, errors,
                   iterations, all_fixes, total_commits, result, saved, calls, exc, pc>>
    /\ UNCHANGED <<healVars, anVars, ccVars, vdVars, fnVars>>

NextTrace == TraceCall

SpecTrace == InitTrace /\ [][NextTrace]_vars

(***************************************************************************)
(* _fix_wrong_operator on the body of the callee it found.  A line is the  *)
(* sequence of its words; an operator is a word of its own, as the code    *)
(* looks for it between two blanks.                                        *)
(***************************************************************************)
MaxBody == 2

BodyLines ==
    { <<"return", "a", "-", "b">>,
      <<"return", "a", "-", "b", "+", "c">>,
      <<"return", "a", "/", "b", "*", "c">>,
      <<"return", "a">>,
      <<"t", "=", "a", "*", "b">>,
      <<"t", "=", "a", "-", "b", "+", "c">>,
      <<"print", "a", "+", "b">> }

\* heal_agent.py line 526: op_pairs, in the order the code tries them
op_pairs == << <<"+", "-">>, <<"-", "+">>, <<"*", "/">>, <<"/", "*">> >>

Operators == { op_pairs[k][1] : k \in DOMAIN op_pairs }

Counterpart(op) == op_pairs[CHOOSE k \in DOMAIN op_pairs : op_pairs[k][1] = op][2]

HasWord(line, w) == \E k \in DOMAIN line : line[k] = w

\* str.replace(old, new, 1): the first occurrence of the word is replaced
ReplaceFirst(line, old, new) ==
    LET at == CHOOSE k \in DOMAIN line :
                 /\ line[k] = old
                 /\ \A j \in 1..(k - 1) : line[j] # old
    IN  [line EXCEPT ![at] = new]

\* lines 533-535 and 544-546: for old_op, new_op in op_pairs: if old_op in
\* body_line: the first pair whose operator the line holds is applied
FlipLine(line) ==
    LET k == CHOOSE j \in DOMAIN op_pairs :
                /\ HasWord(line, op_pairs[j][1])
                /\ \A h \in 1..(j - 1) : ~HasWord(line, op_pairs[h][1])
    IN  ReplaceFirst(line, op_pairs[k][1], op_pairs[k][2])

HasOperator(line) == \E op \in Operators : HasWord(line, op)

\* line 531: 'return' in body_line
IsReturnLine(line) == HasWord(line, "return")

\* line 542: not a return line, and '=' in body_line
IsAssignLine(line) == ~IsReturnLine(line) /\ HasWord(line, "=")

NoFlip == [line |-> 0, text |-> <<>>]

First(S) == CHOOSE k \in S : \A j \in S : k <= j

\* lines 524-550: pass 1 over the return lines, pass 2 over the assignments
_flip_in_body(body) ==
    LET returns == { k \in DOMAIN body : IsReturnLine(body[k]) /\ HasOperator(body[k]) }
        assigns == { k \in DOMAIN body : IsAssignLine(body[k]) /\ HasOperator(body[k]) }
    IN  IF returns # {} THEN [line |-> First(returns), text |-> FlipLine(body[First(returns)])]
        ELSE IF assigns # {} THEN [line |-> First(assigns), text |-> FlipLine(body[First(assigns)])]
        ELSE NoFlip

InitFlip ==
    /\ pc = "flip"
    /\ fn_in \in { b \in SeqsUpTo(BodyLines, MaxBody) : Len(b) >= 1 }
    /\ fn_out = <<>>
    /\ NoConcurrentRuns
    /\ NoReport
    /\ NoTrace
    /\ SingleRunIdle

\* heal_agent.py lines 524-550
FlipOperator ==
    /\ pc = "flip"
    /\ fn_out' = _flip_in_body(fn_in)
    /\ pc' = "flipped"
    /\ UNCHANGED fn_in
    /\ UNCHANGED <<max_iterations, i, test_output, current_output, errors,
                   iterations, all_fixes, total_commits, result, saved, calls, exc>>
    /\ UNCHANGED <<healVars, anVars, ccVars, vdVars, trVars>>

NextFlip == FlipOperator

SpecFlip == InitFlip /\ [][NextFlip]_vars

(***************************************************************************)
(* _fix_error on one Defect of kind SYNTAX or LOGIC, with the strategies   *)
(* of its table computed on the characters of the Defect's line.  A line   *)
(* is [indent, text]: indent counts steps of four blanks, text is the      *)
(* sequence of the characters after them.  The rest of the file is given   *)
(* by what the strategies and py_compile look at: the indentation the      *)
(* previous line calls for and whether a more indented line follows.       *)
(***************************************************************************)
IfAssign        == <<"i", "f", " ", "x", " ", "=", " ", "5", ":">>
IfAssignNoColon == <<"i", "f", " ", "x", " ", "=", " ", "5">>
IfEqual         == <<"i", "f", " ", "x", " ", "=", "=", " ", "5", ":">>
IfNotEqual      == <<"i", "f", " ", "x", " ", "!", "=", " ", "5", ":">>
IfGreater       == <<"i", "f", " ", "x", " ", ">", " ", "5", ":">>
IfGreaterEqual  == <<"i", "f", " ", "x", " ", ">", "=", " ", "5", ":">>
Assign          == <<"x", " ", "=", " ", "5">>
AssignOpen      == <<"x", " ", "=", " ", "(", "5">>
AssignClosed    == <<"x", " ", "=", " ", "(", "5", ")">>
PassText        == <<"p", "a", "s", "s">>

SourceLines == {IfAssign, IfAssignNoColon, IfNotEqual, IfGreater, Assign, AssignOpen}

\* the texts of this alphabet that are a Python statement or block header
Statements == {Assign, AssignClosed, <<"x">>, PassText}
Headers    == {IfEqual, IfNotEqual, IfGreater, IfGreaterEqual}

SrcLine(n, t) == [indent |-> n, text |-> t]

\* the Defect, its line and the context of the line in its file
LineInputs ==
    [bug_type : {"SYNTAX", "LOGIC"}, message : {MsgSyntax, MsgAssert, MsgAssertNone},
     python : BOOLEAN, line_number : 1..2, indent : 0..1, text : SourceLines,
     prev_indent : 0..1, has_body : BOOLEAN, callee : BOOLEAN]

Count(t, c) == Cardinality({k \in DOMAIN t : t[k] = c})

StartsWith(t, p) == Len(t) >= Len(p) /\ SubSeq(t, 1, Len(p)) = p

Contains(t, p) ==
    \E k \in 1..Len(t) : k + Len(p) - 1 <= Len(t) /\ SubSeq(t, k, k + Len(p) - 1) = p

RECURSIVE Repeat(_, _)
Repeat(c, n) == IF n <= 0 THEN <<>> ELSE <<c>> \o Repeat(c, n - 1)

\* result[:idx] + result[idx+1:] with idx = result.rfind(c)
RemoveLast(t, c) ==
    IF Count(t, c) = 0 THEN t
    ELSE LET idx == CHOOSE k \in DOMAIN t :
                       t[k] = c /\ \A j \in (k + 1)..Len(t) : t[j] # c
         IN  SubSeq(t, 1, idx - 1) \o SubSeq(t, idx + 1, Len(t))

RECURSIVE RemoveLastN(_, _, _)
RemoveLastN(t, c, n) == IF n <= 0 THEN t ELSE RemoveLastN(RemoveLast(t, c), c, n - 1)

\* heal_agent.py lines 263-291; of the keywords only "if " opens a line here
_fix_missing_colon(in) ==
    IF StartsWith(in.text, <<"i", "f", " ">>) /\ in.text[Len(in.text)] # ":"
    THEN LET fixed == SrcLine(in.indent, in.text \o <<":">>)
             needs_pass == ~in.has_body
         IN  SameFileEdit(IF needs_pass THEN <<fixed, SrcLine(in.indent + 1, PassText)>>
                          ELSE <<fixed>>)
    ELSE NoCandidate

\* heal_agent.py lines 293-318
_fix_unmatched_parens(in) ==
    LET open_parens   == Count(in.text, "(") - Count(in.text, ")")
        open_brackets == Count(in.text, "[") - Count(in.text, "]")
        open_braces   == Count(in.text, "{") - Count(in.text, "}")
    IN  IF open_parens > 0
        THEN SameFileEdit(<<SrcLine(in.indent, in.text \o Repeat(")", open_parens))>>)
        ELSE IF open_parens < 0
        THEN SameFileEdit(<<SrcLine(in.indent, RemoveLastN(in.text, ")", 0 - open_parens))>>)
        ELSE IF open_brackets > 0
        THEN SameFileEdit(<<SrcLine(in.indent, in.text \o Repeat("]", open_brackets))>>)
        ELSE IF open_braces > 0
        THEN SameFileEdit(<<SrcLine(in.indent, in.text \o Repeat("}", open_braces))>>)
        ELSE NoCandidate

\* heal_agent.py lines 320-333
_fix_unmatched_quotes(in) ==
    IF Count(in.text, "'") % 2 # 0
    THEN SameFileEdit(<<SrcLine(in.indent, in.text \o <<"'">>)>>)
    ELSE IF Count(in.text, "\"") % 2 # 0
    THEN SameFileEdit(<<SrcLine(in.indent, in.text \o <<"\"">>)>>)
    ELSE NoCandidate

\* compile(candidate.strip(), '<string>', 'exec'): a header without a body
\* is a SyntaxError
CompilesAlone(t) == t \in Statements

\* heal_agent.py lines 335-351: stripped[:i] for the last four characters,
\* longest first; a cut inside the indentation strips to nothing
_fix_trailing_garbage(in) ==
    LET cut(d)  == Strip(SubSeq(in.text, 1, Len(in.text) - d))
        good    == { d \in 1..4 : cut(d) # <<>> /\ CompilesAlone(cut(d)) }
    IN  IF good = {} THEN NoCandidate
        ELSE SameFileEdit(<<SrcLine(in.indent, cut(First(good)))>>)

\* heal_agent.py lines 353-377; no line here starts with a dedent keyword
_fix_indentation(in) ==
    IF in.line_number < 2 THEN SameFileEdit(<<SrcLine(0, in.text)>>)
    ELSE SameFileEdit(<<SrcLine(in.prev_indent, in.text)>>)

\* re.search(r'(?<!=)=(?!=)', line): the places of an "=" with no "=" next to it
BareEquals(t) ==
    { k \in DOMAIN t : /\ t[k] = "="
                       /\ (k = 1 \/ t[k - 1] # "=")
                       /\ (k = Len(t) \/ t[k + 1] # "=") }

\* heal_agent.py lines 440-447
_fix_eq_vs_assign(in) ==
    IF Contains(in.text, <<"i", "f", " ">>) /\ BareEquals(in.text) # {}
    THEN LET at == First(BareEquals(in.text))
         IN  SameFileEdit(<<SrcLine(in.indent,
                 SubSeq(in.text, 1, at - 1) \o <<"=", "=">> \o
                 SubSeq(in.text, at + 1, Len(in.text)))>>)
    ELSE NoCandidate

\* str.replace(old, new, 1) of a three-character text
ReplaceOnce(t, old, new) ==
    LET at == First({ k \in 1..Len(t) : k + 2 <= Len(t) /\ SubSeq(t, k, k + 2) = old })
    IN  SubSeq(t, 1, at - 1) \o new \o SubSeq(t, at + 3, Len(t))

\* heal_agent.py lines 449-456
_fix_off_by_one(in) ==
    IF Contains(in.text, <<" ", ">", " ">>)
    THEN SameFileEdit(<<SrcLine(in.indent,
             ReplaceOnce(in.text, <<" ", ">", " ">>, <<" ", ">", "=", " ">>))>>)
    ELSE IF Contains(in.text, <<" ", "<", " ">>)
    THEN SameFileEdit(<<SrcLine(in.indent,
             ReplaceOnce(in.text, <<" ", "<", " ">>, <<" ", "<", "=", " ">>))>>)
    ELSE NoCandidate

\* "assert" in msg
MentionsAssert(msg) == msg \in {MsgAssert, MsgAssertNone}
\* re.search(r'(\w+)\s*\(', msg) finds a function name
NamesCall(msg) == msg = MsgAssert

\* heal_agent.py lines 458-563 and 715-760: the strategies that scan the tree
\* hand back a cross-file edit when the message lets them through and the
\* tree holds a callee they rewrite (no line here holds "assert" or a call)
TreeScan(name, in) ==
    LET through == IF name = "fix_missing_return" THEN MentionsNone(in.message)
                   ELSE MentionsAssert(in.message) /\ NamesCall(in.message)
    IN  IF through /\ in.callee
        THEN CrossFileEdit("b.py", 1, <<SrcLine(1, <<"r">>)>>)
        ELSE NoCandidate

LineStrategy(name, in) ==
    CASE name = "missing_colon"    -> _fix_missing_colon(in)
      [] name = "unmatched_parens" -> _fix_unmatched_parens(in)
      [] name = "unmatched_quotes" -> _fix_unmatched_quotes(in)
      [] name = "trailing_garbage" -> _fix_trailing_garbage(in)
      [] name = "bad_indent"       -> _fix_indentation(in)
      [] name = "eq_vs_assign"     -> _fix_eq_vs_assign(in)
      [] name = "off_by_one"       -> _fix_off_by_one(in)
      [] name \in {"fix_missing_return", "fix_wrong_operator"} -> TreeScan(name, in)
      [] OTHER -> NoCandidate

\* _verify_syntax of the file with the candidate in place of the line: the
\* text is Python, it stands where the previous line calls for, and it is
\* followed by a more indented line exactly if it is a block header
FileCompiles(in, text) ==
    LET first == text[1]
        body  == in.has_body \/ Len(text) = 2
    IN  /\ first.text \in Statements \cup Headers
        /\ first.indent = (IF in.line_number < 2 THEN 0 ELSE in.prev_indent)
        /\ (first.text \in Headers) <=> body

\* heal_agent.py lines 128-193: what _fix_error does with one candidate
Accepts(in, cand) ==
    \/ cand.kind = "cross"
    \/ /\ cand.kind = "line"
       /\ cand.text # <<SrcLine(in.indent, in.text)>>              \* line 157
       /\ (in.python => FileCompiles(in, cand.text))               \* lines 168-169

NotTried == [tried |-> 0, strategy |-> "", fixed_code |-> <<>>, status |-> "NONE"]

InitLine ==
    /\ pc = "strategies"
    /\ fn_in \in LineInputs
    /\ fn_out = NotTried
    /\ NoConcurrentRuns
    /\ NoReport
    /\ NoTrace
    /\ SingleRunIdle

\* heal_agent.py lines 126-193: one turn of the loop over the strategies
NextStrategy ==
    /\ pc = "strategies"
    /\ fn_out.tried < Len(_get_strategies(fn_in.bug_type))
    /\ LET name == _get_strategies(fn_in.bug_type)[fn_out.tried + 1]
           cand == LineStrategy(name, fn_in)
       IN  IF Accepts(fn_in, cand)
           THEN /\ fn_out' = [tried |-> fn_out.tried + 1, strategy |-> name,
                              fixed_code |-> cand.text,
                              status |-> IF cand.kind = "cross" THEN "APPLIED"
                                         ELSE "PENDING"]
                /\ pc' = "returned"
           ELSE /\ fn_out' = [fn_out EXCEPT !.tried = fn_out.tried + 1]
                /\ pc' = pc
    /\ UNCHANGED fn_in
    /\ UNCHANGED <<max_iterations, i, test_output, current_output, errors,
                   iterations, all_fixes, total_commits, result, saved, calls, exc>>
    /\ UNCHANGED <<healVars, anVars, ccVars, vdVars, trVars>>

\* heal_agent.py lines 195-198: every strategy was tried, None is returned
NoStrategyLeft ==
    /\ pc = "strategies"
    /\ fn_out.tried = Len(_get_strategies(fn_in.bug_type))
    /\ pc' = "returned"
    /\ UNCHANGED <<fn_in, fn_out>>
    /\ UNCHANGED <<max_iterations, i, test_output, current_output, errors,
                   iterations, all_fixes, total_commits, result, saved, calls, exc>>
    /\ UNCHANGED <<healVars, anVars, ccVars, vdVars, trVars>>

NextLine == NextStrategy \/ NoStrategyLeft

SpecLine == InitLine /\ [][NextLine]_vars

(***************************************************************************)
(* Helpers of the properties.                                              *)
(***************************************************************************)
\* the test result the controller looked at last
LastOutput == IF calls.verify = 0 THEN test_output ELSE current_output

\* run_pipeline has returned, or its last save raised
Ended == pc \in {"done", "raised"}

\* no step inside the try block has raised
NoStepRaised == exc = ""

StatusesOf(fs) == { fs[k].status : k \in DOMAIN fs }

\* the Defect _fix_error is working on, and its strategy table
CurrentError == errors[hidx]
CurrentStrategies == _get_strategies(CurrentError.bug_type)

(***************************************************************************)
(* C1                                                                      *)
(***************************************************************************)
\* C1: during and after every call of _fix_error the Defect's own file holds
\* the content it had when the call began or a content that passed the
\* re-parse check: before each strategy is tried the file is as it was, and
\* when the call has returned (a Fix awaiting its commit, or nothing) the
\* file is as it was or has been re-parsed successfully since it was written.
FixEngineLeavesFileSound ==
    /\ pc = "strategy" => disk[CurrentError.file] = original_content
    /\ pc = "commit" =>
          \/ disk[CurrentError.file] = original_content
          \/ reparse_ok[CurrentError.file]
    /\ (pc = "heal_loop" /\ hidx > 1 /\ errors[hidx - 1].file \in DOMAIN disk) =>
          \/ disk[errors[hidx - 1].file] = original_content
          \/ reparse_ok[errors[hidx - 1].file]

RoundsWithinBudget ==
    /\ calls.analyze <= max_iterations
    /\ calls.heal <= max_iterations
    /\ calls.verify <= max_iterations
    /\ Len(iterations) <= max_iterations + 1
    /\ i <= max_iterations + 1
    /\ hidx <= Len(errors) + 1
    /\ pc = "strategy" => sidx <= Len(CurrentStrategies) + 1
    /\ Ended \/ ENABLED Next

\* C3 witness: a Run that used its whole budget (more than one round) and
\* returned FAILED
BudgetExhausted ==
    /\ pc = "done"
    /\ max_iterations = MaxBudget
    /\ calls.heal = max_iterations
    /\ calls.verify = max_iterations
    /\ Len(iterations) = max_iterations + 1
    /\ result.status = "FAILED"

(***************************************************************************)
(* C4                                                                      *)
(***************************************************************************)
\* C4 (as amended): a Run has status PASSED only if the most recent test
\* execution reported zero failures and exit code 0 (its total may be zero);
\* a Run that leaves the loop without such a result and without a raise,
\* its budget exhausted or its analysis empty, ends FAILED.
PassedOnlyOnCleanExit ==
    /\ result.status = "PASSED" =>
          LastOutput.failed = 0 /\ LastOutput.exit_code = 0
    /\ (pc \in {"save", "done", "raised"} /\ NoStepRaised
        /\ ~(LastOutput.failed = 0 /\ LastOutput.exit_code = 0)) =>
          result.status = "FAILED"

\* C4 witness: a Run that passed on a re-test reporting no test at all,
\* and a returned Run is in the model too
PassedOnEmptyRetest ==
    /\ pc = "done"
    /\ result.status = "PASSED"
    /\ calls.verify >= 1
    /\ current_output.total = 0

\* C4 as stated: PASSED only on zero failures and a non-zero total, and
\* FAILED when the loop is left without such a result.
PassedOnlyOnNonZeroTotal ==
    /\ result.status = "PASSED" =>
          LastOutput.failed = 0 /\ LastOutput.total > 0
    /\ (pc \in {"save", "done", "raised"} /\ NoStepRaised
        /\ ~(LastOutput.failed = 0 /\ LastOutput.total > 0)) =>
          result.status = "FAILED"

(***************************************************************************)
(* C5                                                                      *)
(***************************************************************************)
\* the latest analysis of this Run returned an empty Defect list
LatestAnalysisEmpty == calls.analyze >= 1 /\ errors = <<>>

\* C5: when an analysis returns an empty Defect list, the round records one
\* Iteration with status FAILED, no Defect found and no Fix applied, neither
\* a heal pass nor a re-test is executed in that round, the loop stops, and
\* the Run ends FAILED, not ERROR.
EmptyAnalysisEndsFailed ==
    LatestAnalysisEmpty =>
        /\ pc \in {"finalize", "save", "done", "raised"}
        /\ exc = ""
        /\ Len(iterations) = calls.analyze + 1
        /\ LET it == iterations[Len(iterations)] IN
             /\ it.number = i
             /\ it.status = "FAILED"
             /\ it.errors_found = 0
             /\ it.fixes_applied = 0
        /\ calls.heal = calls.analyze - 1
        /\ calls.verify = calls.analyze - 1
        /\ pc # "finalize" => result.status = "FAILED" /\ result.iterations = iterations

\* C5 witness: the second round's analysis found nothing and the Run returned
EmptySecondAnalysisReturned ==
    /\ LatestAnalysisEmpty
    /\ calls.analyze = 2
    /\ pc = "done"

(***************************************************************************)
(* C6                                                                      *)
(***************************************************************************)
\* C6: the Defect list an analysis pass returns holds no two Defects with
\* the same (file, line), whatever the static scan, the test output, the
\* tracer and the lint scan found.
AnalysisReturnsNoDuplicates ==
    pc = "analysed" => NoDuplicates(an_out)

\* C6 witness: a pass whose test output named one location twice, whose
\* tracer reached a failure the scan had not reported, whose lint scan
\* found only locations already taken, and that returned one Defect each
\* from the tracer, the scan and the test output
MergedFromAllSources ==
    /\ pc = "analysed"
    /\ Len(an_in.runtime) = 2
    /\ Key(an_in.runtime[1]) = Key(an_in.runtime[2])
    /\ Len(an_in.lint) = 2
    /\ an_in.lint[1] # an_in.lint[2]
    /\ Len(an_out) = 3
    /\ an_out[1] = ErrorInfo("b.py", 1, "SYNTAX", MsgSyntax)
    /\ an_out[2] \in ScanSpace
    /\ an_out[3] \in RuntimeSpace

(***************************************************************************)
(* C7                                                                      *)
(***************************************************************************)
\* the text of candidate c is the current text of the line it targets
EqualsTargetLine(c, error, lines, dsk) ==
    \/ c.kind = "line" /\ c.text = <<lines[error.line_number]>>
    \/ /\ c.kind = "cross"
       /\ c.target \in DOMAIN dsk
       /\ c.line \in 1..Len(dsk[c.target])
       /\ c.text = <<dsk[c.target][c.line]>>

\* C7: whenever a strategy, same-file or cross-file, yields a candidate
\* whose text equals the current text of the line it targets, the fix
\* engine returns no Fix for it and leaves every file as it is.
IdenticalCandidateIsNoOp ==
    (pc = "strategy" /\ sidx <= Len(CurrentStrategies)) =>
        \A c \in StrategyResults(CurrentStrategies[sidx], CurrentError,
                                 original_content, disk) :
            EqualsTargetLine(c, CurrentError, original_content, disk) =>
                LET a == Attempt(c, CurrentError, original_content, disk, reparse_ok)
                IN  ~a.accepted /\ a.disk = disk

(***************************************************************************)
(* C8                                                                      *)
(***************************************************************************)
\* the re-test executed last passed
RetestPassed ==
    /\ calls.verify >= 1
    /\ current_output.failed = 0
    /\ current_output.exit_code = 0

VerifiedOnlyAfterPassingRetest ==
    /\ "VERIFIED" \in StatusesOf(all_fixes) => RetestPassed
    /\ RetestPassed =>
          /\ pc \in {"finalize", "save", "done", "raised"}
          /\ "APPLIED" \notin StatusesOf(all_fixes)
          /\ pc # "finalize" => result.fixes = all_fixes
    /\ "VERIFIED" \notin StatusesOf(fixes) \cup {fix.status}

VerifiedStep ==
    \A k \in DOMAIN all_fixes :
        /\ k \in DOMAIN all_fixes'
        /\ all_fixes'[k] =
             IF pc = "verify" /\ RetestPassed' /\ all_fixes[k].status = "APPLIED"
             THEN [all_fixes[k] EXCEPT !.status = "VERIFIED"]
             ELSE all_fixes[k]

\* C8: a Fix is VERIFIED exactly when it was APPLIED and a later re-test of
\* the same Run passed: the passing re-test turns every APPLIED Fix of the
\* Run, of this and of earlier rounds, into VERIFIED and changes no other
\* Fix; no other step changes a recorded Fix; while no re-test has passed
\* no Fix is VERIFIED.
VerifiedExactlyOnPassingRetest ==
    []VerifiedOnlyAfterPassingRetest /\ [][VerifiedStep]_vars

\* C8 witness: a returned Run whose passing second re-test verified a Fix
\* of the first round and a Fix of the second
TwoRoundsVerified ==
    /\ pc = "done"
    /\ calls.verify = 2
    /\ Len(result.fixes) = 2
    /\ result.fixes[1].status = "VERIFIED"
    /\ result.fixes[2].status = "VERIFIED"

(***************************************************************************)
(* C9                                                                      *)
(***************************************************************************)
\* C9: a Fix gets status APPLIED, when _fix_error returns it or when its
\* commit is recorded, only if the file it edited has passed the re-parse
\* check since that edit was written.
AppliedOnlyAfterReparse ==
    [][ /\ (fix'.status = "APPLIED" /\ fix' # fix) => reparse_ok'[fix'.file]
        /\ (Len(fixes') = Len(fixes) + 1 /\ fixes'[Len(fixes')].status = "APPLIED")
              => reparse_ok[fixes'[Len(fixes')].file]
      ]_vars

(***************************************************************************)
(* C10                                                                     *)
(***************************************************************************)
\* the (file, line) of the Fixes of fs whose commit was made, in order
Committed(fs) ==
    LET done == SelectSeq(fs, LAMBDA f : f.status \in {"APPLIED", "VERIFIED"})
    IN  [k \in DOMAIN done |-> <<done[k].file, done[k].line_number>>]

\* C10: when a step of the Run has raised, the Run has status ERROR and its
\* record holds every Iteration recorded before the failure and a Fix for
\* every commit made before the failure, those of the heal pass that
\* failed included.
RaiseKeepsPartialProgress ==
    (exc # "" /\ pc \in {"save", "done", "raised"}) =>
        /\ result.status = "ERROR"
        /\ result.iterations = iterations
        /\ Committed(result.fixes) = git_log

(***************************************************************************)
(* C11                                                                     *)
(***************************************************************************)
\* C11: no exception leaves run_pipeline, whichever collaborator fails, the
\* persistence collaborator included; when it has returned, the record has a
\* terminal status and is the one persisted.
NoExceptionEscapes ==
    /\ pc # "raised"
    /\ pc = "done" =>
          /\ result.status \in {"PASSED", "FAILED", "ERROR"}
          /\ saved = <<result>>

(***************************************************************************)
(* C12                                                                     *)
(***************************************************************************)
\* the step taken is the recording of a Fix whose commit failed
CommitFailedStep == pc = "commit" /\ pc' = "heal_loop" /\ git_log' = git_log

\* the heal pass returns to run_pipeline
PassReturnsStep == pc = "heal_loop" /\ pc' = "verify"

\* C12 (as amended): when the commit of an accepted Fix fails, the Fix is
\* appended to the pass's Fix list with status FAILED, its edit stays on
\* disk, the commit count is not incremented, the pass goes on to the next
\* Defect and nothing is raised; when the pass returns, its Fixes, the
\* FAILED ones included, are added to the Run's Fix list.
CommitFailureKeepsFixAsFailed ==
    [][ /\ CommitFailedStep =>
             /\ fixes' = Append(fixes, [fix EXCEPT !.status = "FAILED"])
             /\ commit_count' = commit_count
             /\ disk' = disk
             /\ hidx' = hidx + 1
             /\ exc' = "" /\ exc = ""
             /\ all_fixes' = all_fixes
        /\ PassReturnsStep =>
             /\ all_fixes' = all_fixes \o fixes
             /\ total_commits' = total_commits + commit_count
      ]_vars

\* C12 witness: the commit of the first Defect's Fix failed and the pass is
\* trying a strategy for the second Defect
PassGoesOnAfterCommitFailure ==
    /\ pc = "strategy"
    /\ hidx = 2
    /\ Len(fixes) = 1
    /\ fixes[1].status = "FAILED"
    /\ commit_count = 0
    /\ git_log = <<>>
    /\ exc = ""

\* C12 as stated: the Fix whose commit failed is kept with status APPLIED.
CommitFailureKeepsFixAsApplied ==
    [][ CommitFailedStep =>
             /\ fixes' = Append(fixes, [fix EXCEPT !.status = "APPLIED"])
             /\ commit_count' = commit_count
             /\ hidx' = hidx + 1
             /\ exc' = ""
      ]_vars

\* C13: two Runs executing concurrently do not interfere: while a Run works on
\* its tree, the folder it cloned into holds its own clone, written by no other
\* Run, and the record a finished Run saved is still the one in RESULTS_PATH.
WorkingTreeIsOwn(r) ==
    /\ clone_dir[Dest(r)].owner = r
    /\ clone_dir[Dest(r)].writers \subseteq {r}

RunsDoNotInterfere ==
    \A r \in Runs :
        /\ runs[r].pc = "work" => WorkingTreeIsOwn(r)
        /\ runs[r].pc = "done" => results_file = r

(***************************************************************************)
(* C14                                                                     *)
(***************************************************************************)
\* a turn of the strategy loop that accepts nothing: the candidate was
\* rejected and reverted, or the loop fell through to the final revert
RevertedAttemptStep == pc = "strategy" /\ pc' \in {"strategy", "heal_loop"}

\* the edit recorded in fx is what the tree dsk holds at its place
OnDisk(fx, dsk) ==
    /\ fx.file \in DOMAIN dsk
    /\ fx.line_number >= 1
    /\ fx.line_number + Len(fx.fixed_code) - 1 <= Len(dsk[fx.file])
    /\ RStripText(SubSeq(dsk[fx.file], fx.line_number,
                         fx.line_number + Len(fx.fixed_code) - 1)) = fx.fixed_code

\* C14: within one heal pass, a fix attempt that fails and is reverted
\* leaves its own file with the content it had when the attempt began (which
\* the file keeps for as long as the attempt has accepted nothing), leaves
\* every other file as it is, and leaves on disk every edit of the pass's
\* accepted Fixes that was there, in another file or in the same file.
FailedAttemptRevertsOnlyItsFile ==
    /\ [](pc = "strategy" => disk[CurrentError.file] = original_content)
    /\ [][RevertedAttemptStep =>
            /\ disk'[CurrentError.file] = original_content
            /\ \A f \in Files \ {CurrentError.file} : disk'[f] = disk[f]
            /\ \A k \in 1..Len(fixes) :
                 OnDisk(fixes[k], disk) => OnDisk(fixes[k], disk')]_vars

\* the first Defect's same-file edit was accepted and re-parsed, the second
\* Defect, in the same file, got no Fix and its revert wrote the file again:
\* the first edit is still on disk
LaterAttemptRevertedAfterAcceptedEdit ==
    /\ pc = "heal_loop"
    /\ hidx = 3
    /\ Len(fixes) = 1
    /\ errors[1].file = errors[2].file
    /\ IsPython(errors[1].file)
    /\ fixes[1].file = errors[1].file
    /\ fixes[1].line_number = errors[1].line_number
    /\ fixes[1].original_code # CrossFileMarker
    /\ ~reparse_ok[errors[2].file]
    /\ OnDisk(fixes[1], disk)

(***************************************************************************)
(* C15                                                                     *)
(***************************************************************************)
\* the latest test re-execution timed out
RetestTimedOut == calls.verify >= 1 /\ current_output = TimedOut

\* C15: when a test re-execution times out, the result handed to the loop is
\* a failing one, the Iteration recorded for that round has status FAILED,
\* and the Run does not end PASSED on that result.
TimedOutRoundIsFailedIteration ==
    RetestTimedOut =>
        /\ ~AllPassed(current_output)
        /\ iterations[Len(iterations)].status = "FAILED"
        /\ (Ended => result.status # "PASSED")

(***************************************************************************)
(* C16                                                                     *)
(***************************************************************************)
\* C16: no Defect located in a vendored directory is produced by an
\* extraction pattern, and no file in a vendored directory is written by the
\* fix engine, for the Defect's own file or as a cross-file target.
NoVendoredFileTouched ==
    /\ \A k \in 1..Len(located) : ~Vendored(located[k].file)
    /\ \A path \in written : ~Vendored(path)

(***************************************************************************)
(* C17, C18, C20                                                           *)
(***************************************************************************)
Range(sq) == { sq[k] : k \in DOMAIN sq }

\* the Defects the tracer emitted in the analysis pass
TracedRoots == { c.root : c \in Range(TraceCalls(an_in)) } \ {NoRoot}

\* C17: when the tracer finds that the file a surface Defect resolves to
\* fails to parse, the returned list holds the traced failure and no longer
\* holds the surface Defect.
TracedReplacesSurface ==
    pc = "analysed" =>
        \A c \in Range(TraceCalls(an_in)) :
            c.root # NoRoot =>
                /\ c.root \in Range(an_out)
                /\ c.err \notin Range(an_out)

\* C18: in the list an analysis pass returns, every Defect emitted by the
\* tracer precedes every Defect that was not.
TracedDefectsFirst ==
    pc = "analysed" =>
        \A j, k \in DOMAIN an_out :
            (an_out[j] \in TracedRoots /\ an_out[k] \notin TracedRoots) => j < k

\* a pass that returned a traced Defect with a scan finding, a runtime
\* Defect and a lint finding
TracedAheadOfAllSources ==
    /\ pc = "analysed"
    /\ TracedRoots # {}
    /\ \E k \in DOMAIN an_out : an_out[k] \in Range(an_in.scan) \ TracedRoots
    /\ \E k \in DOMAIN an_out : an_out[k] \in Range(an_in.runtime)
    /\ \E k \in DOMAIN an_out : an_out[k] \in Range(an_in.lint)

\* C20: for every Defect whose kind is not IMPORT the tracer returns no
\* substitution, whatever its message holds.
OnlyImportDefectsTraced ==
    pc = "analysed" =>
        \A c \in Range(TraceCalls(an_in)) :
            c.err.bug_type # "IMPORT" => c.root = NoRoot

(***************************************************************************)
(* C19                                                                     *)
(***************************************************************************)
\* a call of the tracer on a Defect whose target file parses cleanly
CleanTraceStep ==
    /\ tr_target.resolves /\ tr_target.parses
    /\ Len(tr_results') = Len(tr_results) + 1

SourceOf(target) == [resolves |-> target.resolves, parses |-> target.parses,
                     failure |-> target.failure]

\* C19 (as amended): tracing a Defect whose resolved target file parses
\* cleanly returns no substitution, on the first call and on every repeated
\* call, and changes neither the dedup set, the Defect nor the target's
\* source; the one file it writes is the target's byte-code cache.
CleanTraceIsRepeatable ==
    [][CleanTraceStep =>
         /\ tr_results'[Len(tr_results')] = NoRoot
         /\ tr_seen' = tr_seen
         /\ tr_err' = tr_err
         /\ SourceOf(tr_target') = SourceOf(tr_target)]_vars

\* the tracer went through its gate MaxCalls times on a target that compiles
CleanTargetTracedRepeatedly ==
    /\ pc = "trace"
    /\ Gate(tr_err)
    /\ tr_target.resolves /\ tr_target.parses /\ tr_target.cached
    /\ Len(tr_results) = MaxCalls
    /\ \A k \in DOMAIN tr_results : tr_results[k] = NoRoot

\* C19 as stated: ... while changing neither the dedup set, the Defect, nor
\* any file.
CleanTraceChangesNoFile ==
    [][CleanTraceStep =>
         /\ tr_results'[Len(tr_results')] = NoRoot
         /\ tr_seen' = tr_seen
         /\ tr_err' = tr_err
         /\ tr_target' = tr_target]_vars

(***************************************************************************)
(* C21                                                                     *)
(***************************************************************************)
TerminalStatuses == {"PASSED", "FAILED", "ERROR"}

\* C21: the Run status leaves RUNNING for exactly one of PASSED, FAILED or
\* ERROR: once it is one of these it never changes again, and a returned Run
\* never has status RUNNING.
RunStatusIsTerminal ==
    /\ [](result.status \in {"RUNNING"} \cup TerminalStatuses)
    /\ [](pc = "done" => result.status \in TerminalStatuses)
    /\ [][result.status \in TerminalStatuses => result'.status = result.status]_vars

(***************************************************************************)
(* C22                                                                     *)
(***************************************************************************)
\* the strategy loop of _fix_error has run out and falls through
ExhaustedStep ==
    pc = "strategy" /\ sidx > Len(CurrentStrategies) /\ pc' = "heal_loop"

\* C22: when every strategy for a Defect's kind is exhausted without an
\* accepted edit, no Fix is returned, the Defect's file holds the content it
\* had when the attempt began, nothing is added to the Fix list or the commit
\* count, the pass moves on to the next Defect and never back, and nothing
\* is raised.
ExhaustedStrategiesSkipDefect ==
    /\ [](pc = "strategy" /\ sidx > Len(CurrentStrategies)
            => disk[CurrentError.file] = original_content)
    /\ [][ExhaustedStep =>
            /\ disk'[CurrentError.file] = original_content
            /\ fix' = NoFixYet
            /\ fixes' = fixes
            /\ commit_count' = commit_count
            /\ hidx' = hidx + 1
            /\ exc' = exc]_vars
    /\ [][(hidx >= 1 /\ hidx' >= 1) => hidx' >= hidx]_vars

\* the first of two Defects went through all its strategies and got no Fix;
\* its file is as the clone left it and the pass stands at the second Defect
FirstDefectExhausted ==
    /\ pc = "heal_loop"
    /\ hidx = 2
    /\ Len(errors) = 2
    /\ errors[1].file \in DOMAIN disk
    /\ errors[1].line_number \in 1..Len(disk[errors[1].file])
    /\ fixes = <<>>
    /\ commit_count = 0
    /\ disk \in InitDisks
    /\ exc = ""

(***************************************************************************)
(* C24                                                                     *)
(***************************************************************************)
\* the position of the leftmost arithmetic operator of a line
Leftmost(line) == First({ k \in DOMAIN line : line[k] \in Operators })

\* the line with its leftmost operator, and only it, replaced by its
\* counterpart
LeftmostFlipped(line) == [line EXCEPT ![Leftmost(line)] = Counterpart(line[Leftmost(line)])]

\* C24: the operator flip edits the leftmost arithmetic operator of the first
\* return line that holds one or, only when no return line holds one, of the
\* first assignment line that holds one, and replaces exactly that operator
\* by its counterpart.
FlipsLeftmostOperator ==
    pc = "flipped" =>
        LET returns == { k \in DOMAIN fn_in : IsReturnLine(fn_in[k]) /\ HasOperator(fn_in[k]) }
            assigns == { k \in DOMAIN fn_in : IsAssignLine(fn_in[k]) /\ HasOperator(fn_in[k]) }
            chosen  == IF returns # {} THEN First(returns) ELSE First(assigns)
        IN  IF returns = {} /\ assigns = {} THEN fn_out = NoFlip
            ELSE /\ fn_out.line = chosen
                 /\ fn_out.text = LeftmostFlipped(fn_in[chosen])


(***************************************************************************)
(* C23                                                                     *)
(***************************************************************************)
\* the fix engine has returned for a Defect on a line reading `if x = 5:`
\* that stands where its file calls for it, a block following
ReturnedForIfAssign ==
    /\ pc = "returned"
    /\ fn_in # <<>>
    /\ fn_in.text = IfAssign
    /\ fn_in.python
    /\ fn_in.has_body
    /\ fn_in.indent = (IF fn_in.line_number < 2 THEN 0 ELSE fn_in.prev_indent)

\* C23: for a Defect on a line reading `if x = 5:`, of kind LOGIC or SYNTAX,
\* the Fix the fix engine returns comes from eq_vs_assign and reads
\* `if x == 5:`, the first bare "=" promoted once.
IfAssignIsPromoted ==
    ReturnedForIfAssign =>
        /\ fn_out.strategy = "eq_vs_assign"
        /\ fn_out.fixed_code = <<SrcLine(fn_in.indent, IfEqual)>>


(***************************************************************************)
(* C25                                                                     *)
(***************************************************************************)
IsPrefix(sq, longer) ==
    Len(sq) <= Len(longer) /\ SubSeq(longer, 1, Len(sq)) = sq

\* the k-th Iteration recorded carries the ordinal k - 1
OrdinalsFromZero(its) == \A k \in DOMAIN its : its[k].number = k - 1

DiffersAndParses(in, k) ==
    LET cand == LineStrategy(_get_strategies(in.bug_type)[k], in)
    IN  /\ cand.kind = "line"
        /\ cand.text # <<SrcLine(in.indent, in.text)>>
        /\ FileCompiles(in, cand.text)

\* C26: the strategies of the Defect's table are tried in the table's order
\* and the Fix returned comes from the earliest of them whose candidate
\* both differs from the original line and passes the re-parse check; the
\* strategies after it are not invoked.
FixComesFromEarliestParsingCandidate ==
    (pc = "returned" /\ fn_in # <<>> /\ fn_out.strategy # "") =>
        LET table == _get_strategies(fn_in.bug_type)
            good  == { k \in DOMAIN table : DiffersAndParses(fn_in, k) }
        IN  /\ good # {}
            /\ fn_out.tried = First(good)
            /\ fn_out.strategy = table[First(good)]


(***************************************************************************)
(* C27                                                                     *)
(***************************************************************************)
\* the last re-test reported no failure and exit code 0
LastRetestPassed ==
    calls.verify > 0 /\ current_output.failed = 0 /\ current_output.exit_code = 0

\* what the analysis is about to read is the result of the latest execution
\* of the tests: the initial run before any re-test, else the re-test whose
\* counts the last Iteration holds
ReadsLatestOutput ==
    IF calls.verify = 0 THEN current_output = test_output
    ELSE LET last == iterations[Len(iterations)]
         IN  /\ last.number = calls.verify
             /\ current_output.passed = last.passed
             /\ current_output.failed = last.failed
             /\ current_output.total = last.total

\* C27: rounds are sequential.  An analysis starts only when every heal
\* pass so far was followed by its one re-test, and reads the result of the
\* latest test execution; files are edited only inside a heal pass, before
\* its re-test; after a re-test that passed there is no further analysis,
\* heal pass, edit or re-test.
RoundsAreSequential ==
    /\ [](/\ calls.heal <= calls.analyze /\ calls.analyze <= calls.heal + 1
          /\ calls.verify <= calls.heal /\ calls.heal <= calls.verify + 1)
    /\ [](pc = "analyze" =>
            /\ calls.analyze = calls.heal
            /\ calls.heal = calls.verify
            /\ ReadsLatestOutput)
    /\ [][/\ disk' # disk => calls.heal = calls.verify + 1
          /\ current_output' # current_output => pc \in {"discover", "verify"}
          /\ LastRetestPassed => /\ calls' = calls
                              /\ disk' = disk
                              /\ current_output' = current_output]_vars

\* witness: the second round's heal pass starts on the Defects found in the
\* output of the first round's re-test, which ran after a committed edit
SecondRoundAfterRetest ==
    /\ pc = "heal"
    /\ calls = [analyze |-> 2, heal |-> 1, verify |-> 1, defects |-> 2]
    /\ Len(git_log) = 1
    /\ Len(iterations) = 2


(***************************************************************************)
(* C28                                                                     *)
(***************************************************************************)
RECURSIVE SumFixesApplied(_)
SumFixesApplied(its) ==
    IF its = <<>> THEN 0 ELSE Head(its).fixes_applied + SumFixesApplied(Tail(its))

CommittedFixes(fs) ==
    Cardinality({ k \in DOMAIN fs : fs[k].status \in {"APPLIED", "VERIFIED"} })

\* the Run went into the loop and its record is ready to be saved
RecordOfTheLoop == pc \in {"save", "done", "raised"} /\ calls.analyze > 0

\* C28: in every Run record of a Run that went through the loop, the total
\* commit count equals the sum of the Iterations' fixes_applied counts and
\* the number of Fixes of the record with status APPLIED or VERIFIED (a Fix
\* whose commit failed, status FAILED, is in neither count).
CommitCountsAgree ==
    RecordOfTheLoop =>
        /\ result.total_commits = SumFixesApplied(result.iterations)
        /\ result.total_commits = CommittedFixes(result.fixes)


(***************************************************************************)
(* C29                                                                     *)
(***************************************************************************)
\* a turn of the strategy loop that accepts its candidate and returns a Fix
AcceptingStep == pc = "strategy" /\ pc' = "commit"

\* C29: within a heal pass, the step that accepts a Fix leaves the number of
\* lines of the file it edits as it was, so that the lines after the edit
\* keep the numbers the other Defects of the pass were detected with.
AcceptedFixKeepsLineCount ==
    [][AcceptingStep =>
         /\ Len(disk'[fix'.file]) = Len(disk[fix'.file])
         /\ \A n \in 1..Len(disk[fix'.file]) :
               n > fix'.line_number => disk'[fix'.file][n] = disk[fix'.file][n]]_vars


(***************************************************************************)
(* C30                                                                     *)
(***************************************************************************)
RecordedStatuses == {"APPLIED", "VERIFIED", "FAILED"}

\* the places of the FAILED Fixes of a list
FailedIn(fs) == { k \in DOMAIN fs : fs[k].status = "FAILED" }

\* C30: every Fix of the heal pass' list, of the Run's Fix list and of the
\* Run record has status APPLIED, VERIFIED or FAILED, never PENDING (the
\* status is set before the Fix is appended), and a Fix that is FAILED stays
\* FAILED in its place.
RecordedFixIsNeverPending ==
    /\ [](/\ StatusesOf(fixes) \subseteq RecordedStatuses
          /\ StatusesOf(all_fixes) \subseteq RecordedStatuses
          /\ StatusesOf(result.fixes) \subseteq RecordedStatuses
          /\ \A k \in DOMAIN saved : StatusesOf(saved[k].fixes) \subseteq RecordedStatuses)
    /\ [][/\ FailedIn(all_fixes) \subseteq FailedIn(all_fixes')
          /\ FailedIn(result.fixes) \subseteq FailedIn(result.fixes')]_vars

\* witness: the saved record of a Run whose re-test passed holds a Fix whose
\* commit failed next to one that was committed
FailedNextToVerified ==
    /\ pc = "done"
    /\ Len(saved) = 1
    /\ StatusesOf(saved[1].fixes) = {"FAILED", "VERIFIED"}

====
